---------------------------- MODULE Spec2Model ----------------------------
(***************************************************************************)
(* A model of the renet core:                                              *)
(*   - the netcode server state machine (renet_code/src/server.rs):        *)
(*     handshake, slot assignment, timeouts, pending reaper, event queue;  *)
(*   - the unreliable send and receive channels                            *)
(*     (rechannel/src/channels/unreliable.rs).                             *)
(* Time is counted in ticks, TicksPerSec ticks to the second, so that the  *)
(* whole-second truncation of Duration::as_secs is visible.                *)
(***************************************************************************)
EXTENDS Integers, Sequences, FiniteSets, TLC

(***************************************************************************)
(* Bounds of the model.                                                    *)
(***************************************************************************)
\* Largest value of current_time, in ticks.
MaxTime == 3
\* Largest elapsed time handed to one update call, in ticks.
MaxDt == 2
\* Resolution of the modelled Duration: ticks per second.
TicksPerSec == 2
\* Cap on challenge_sequence (the u64 counter is unbounded in practice).
MaxChallenge == 2
\* Server::new is called with max_clients drawn from this set: the two peer
\* addresses can fill a server of one slot and cannot fill one of two; slots
\* beyond the number of peers stay empty.
Capacities == {1, 2}

(***************************************************************************)
(* Option<T>: None is the empty tuple, Some(x) the one-element tuple.      *)
(***************************************************************************)
None == << >>
Some(x) == <<x>>
IsSome(o) == o # None
Unwrap(o) == o[1]

(***************************************************************************)
(* The outside world: source addresses, connect tokens, datagrams.         *)
(***************************************************************************)
Addrs == {"a1", "a2"}
ClientIds == {1, 2}

\* PrivateConnectToken as minted by the token service (token.rs is not part
\* of the sources; the fields are those server.rs reads).
\* host_ok: the server's own address is in server_addresses.
PrivateToken(id, timeout, host) ==
    [client_id |-> id, timeout_seconds |-> timeout,
     client_to_server_key |-> <<"c2s", id, timeout>>,
     server_to_client_key |-> <<"s2c", id, timeout>>,
     host_ok |-> host]

\* Client 1 times out after one second, client 2 has timeouts disabled (0).
Tokens == {PrivateToken(1, 1, TRUE), PrivateToken(2, 0, TRUE)}

\* ConnectionRequest, the public portion. version_ok: version_info equals
\* NETCODE_VERSION_INFO; sealed_ok: data opens under connect_key with the
\* request's protocol id, expire_timestamp and xnonce.
Request(ver, create, expire, sealed, tok) ==
    [version_ok |-> ver, create_timestamp |-> create, expire_timestamp |-> expire,
     sealed_ok |-> sealed, token |-> tok]

ValidRequests == {Request(TRUE, 10, 11, TRUE, t) : t \in Tokens}
InvalidRequests ==
    { Request(FALSE, 10, 11, TRUE, PrivateToken(1, 1, TRUE)),
      Request(TRUE, 10, 11, FALSE, PrivateToken(1, 1, TRUE)),
      Request(TRUE, 10, 11, TRUE, PrivateToken(1, 1, FALSE)) }
Requests == ValidRequests \cup InvalidRequests

\* Wall clock readings (seconds since the epoch) seen by validate_client_token.
WallClocks == {10, 12}

\* The wall clock is read only while a ConnectionRequest is validated.
WallClockReadings(buffer) ==
    IF buffer.kind = "ConnectionRequest" /\ buffer.request \in ValidRequests
    THEN WallClocks ELSE {10}

ReceiveKeys == {t.client_to_server_key : t \in Tokens}

\* Datagrams. A sealed packet records the key it was sealed with.
\* "TooSmall" is a buffer of at most 2 + NETCODE_MAC_BYTES octets, "Garbage"
\* one that does not decode.
Buffers(iss) ==
    {[kind |-> "TooSmall"], [kind |-> "Garbage"]}
    \cup {[kind |-> "ConnectionRequest", request |-> r] : r \in Requests}
    \cup {[kind |-> k, key |-> key] :
            k \in {"Payload", "Disconnect", "KeepAlive"}, key \in ReceiveKeys}
    \cup {[kind |-> "Response", key |-> key,
           challenge |-> [client_id |-> c, authentic |-> TRUE]] :
            key \in ReceiveKeys, c \in iss}
    \cup {[kind |-> "Response", key |-> key,
           challenge |-> [client_id |-> 1, authentic |-> FALSE]] :
            key \in ReceiveKeys}

(***************************************************************************)
(* Server state.                                                           *)
(***************************************************************************)
VARIABLES
    clients,             \* [0..max_clients-1 -> Option<Connection>]
    pending_clients,     \* [Addrs -> Option<Connection>] (absent key = None)
    max_clients,
    challenge_sequence,
    current_time,        \* ticks
    events,              \* VecDeque<ServerEvent>
    issued,              \* client ids for which a challenge token was sealed
    ret                  \* value returned by the last call

server_vars == <<clients, pending_clients, max_clients, challenge_sequence,
                 current_time, events, issued, ret>>

(***************************************************************************)
(* Channel state, with the harness that carries packets from the send     *)
(* channel to the receive channel.                                         *)
(***************************************************************************)
VARIABLES
    send,        \* SendChannelUnreliable
    recv,        \* ReceiveChannelUnreliable
    wire,        \* packets returned by get_messages_to_send, not yet fed
    accepted,    \* messages send_message queued, in call order
    delivered,   \* messages receive_message returned, in call order
    calls,       \* number of send_message calls / direct ingress calls so far
    chan_ret,    \* value returned by the last channel call
    overflow_checks  \* the build panics on integer overflow (debug profile)
                     \* instead of wrapping (release profile)

chan_vars == <<send, recv, wire, accepted, delivered, calls, chan_ret,
               overflow_checks>>

vars == <<server_vars, chan_vars>>

\* ServerResult and the other return values.
ResultNone == [type |-> "None"]
PacketToSend(p) == [type |-> "PacketToSend", packet |-> p]
Payload(b) == [type |-> "Payload", payload |-> b]
Ok(r) == [ok |-> TRUE, value |-> r]
Err(e) == [ok |-> FALSE, error |-> e]

ConnectionDenied == [kind |-> "ConnectionDenied"]
Disconnect == [kind |-> "Disconnect"]
ChallengeStale(id, seq) ==
    [kind |-> "Challenge", client_id |-> id, sequence |-> seq - 1]
Challenge(id, seq) == [kind |-> "Challenge", client_id |-> id, sequence |-> seq]
KeepAliveMut(max, index) ==
    [kind |-> "KeepAlive", max_clients |-> max, client_index |-> index + 1]
KeepAlive(max, index) ==
    [kind |-> "KeepAlive", max_clients |-> max, client_index |-> index]

ClientConnected(id) == <<"ClientConnected", id>>
ClientDisconnected(id) == <<"ClientDisconnected", id>>

Slots == DOMAIN clients
Occupied(cl) == {i \in DOMAIN cl : IsSome(cl[i])}

\* clients.iter_mut().flatten().find(|c| c.addr == addr): the lowest slot.
SlotByAddr(cl, addr) ==
    LET S == {i \in Occupied(cl) : Unwrap(cl[i]).addr = addr}
    IN IF S = {} THEN None ELSE Some(CHOOSE i \in S : \A j \in S : i <= j)
find_client_by_addr(cl, addr) ==
    LET s == SlotByAddr(cl, addr) IN IF s = None THEN None ELSE cl[Unwrap(s)]

\* A search that finds nobody.
find_client_by_id_none(cl, id) == None
find_client_by_id(cl, id) ==
    LET S == {i \in Occupied(cl) : Unwrap(cl[i]).client_id = id}
    IN IF S = {} THEN None
       ELSE cl[CHOOSE i \in S : \A j \in S : i <= j]

\* clients.iter().position(|c| c.is_none())
FreeSlot(cl) ==
    LET S == {i \in DOMAIN cl : cl[i] = None}
    IN IF S = {} THEN None ELSE Some(CHOOSE i \in S : \A j \in S : i <= j)

\* Packet::decode (packet.rs is not part of the sources): a ConnectionRequest
\* is not sealed under a session key; every other packet opens only under
\* the key it was sealed with, and cannot be decoded without a key.
Decode(buffer, key) ==
    CASE buffer.kind = "Garbage" -> Err("InvalidPacket")
      [] buffer.kind = "ConnectionRequest" -> Ok(buffer)
      [] OTHER -> IF key # None /\ Unwrap(key) = buffer.key
                  THEN Ok(buffer) ELSE Err("CryptoError")

\* EncryptedChallengeToken::decode: opens iff sealed under challenge_key.
ChallengeDecode(response) ==
    IF response.challenge.authentic THEN Ok(response.challenge)
    ELSE Err("CryptoError")

validate_client_token(request, now) ==
    IF ~request.version_ok THEN Err("InvalidVersion")
    ELSE IF now > request.expire_timestamp THEN Err("Expired")
    ELSE IF ~request.sealed_ok THEN Err("InvalidToken")
    ELSE IF request.token.host_ok THEN Ok(request.token)
    ELSE Err("NotInHostList")

NewConnectionKeysSwapped(addr, request, connect_token) ==
    [sequence |-> 0,
     client_id |-> connect_token.client_id,
     last_packet_received_time |-> current_time,
     last_packet_send_time |-> Some(current_time),
     addr |-> addr,
     state |-> "PendingResponse",
     send_key |-> connect_token.client_to_server_key,
     receive_key |-> connect_token.server_to_client_key,
     timeout_seconds |-> connect_token.timeout_seconds,
     connect_start_time |-> current_time,
     expire_timestamp |-> request.expire_timestamp,
     create_timestamp |-> request.create_timestamp]
NewConnection(addr, request, connect_token) ==
    [sequence |-> 0,
     client_id |-> connect_token.client_id,
     last_packet_received_time |-> current_time,
     last_packet_send_time |-> Some(current_time),
     addr |-> addr,
     state |-> "PendingResponse",
     send_key |-> connect_token.server_to_client_key,
     receive_key |-> connect_token.client_to_server_key,
     timeout_seconds |-> connect_token.timeout_seconds,
     connect_start_time |-> current_time,
     expire_timestamp |-> request.expire_timestamp,
     create_timestamp |-> request.create_timestamp]

\* The server fields a packet handler may change, and its result.
Outcome(cl, pend, chal, ev, iss, res) ==
    [clients |-> cl, pending_clients |-> pend, challenge_sequence |-> chal,
     events |-> ev, issued |-> iss, res |-> res]

\* self.pending_clients.remove(&addr)
RemovePendingNot(pend, addr) == pend
RemovePending(pend, addr) == [pend EXCEPT ![addr] = None]

\* handle_connection_request, entered with the pending map `pend`.
handle_connection_request(addr, request, now, pend) ==
    LET v == validate_client_token(request, now)
        same(res) == Outcome(clients, pend, challenge_sequence, events, issued, res)
    IN IF ~v.ok THEN same(v)
       ELSE
         LET connect_token == v.value
             id_already_connected == IsSome(find_client_by_addr(clients, addr))
             addr_already_connected ==
                 IsSome(find_client_by_id(clients, connect_token.client_id))
         IN IF id_already_connected \/ addr_already_connected
            THEN same(Ok(ResultNone))
            ELSE IF Cardinality(Occupied(clients)) >= max_clients
            THEN Outcome(clients, RemovePending(pend, addr), challenge_sequence,
                         events, issued, Ok(PacketToSend(ConnectionDenied)))
            ELSE
              Outcome(clients,
                      IF pend[addr] = None
                      THEN [pend EXCEPT ![addr] =
                               Some(NewConnection(addr, request, connect_token))]
                      ELSE pend,
                      challenge_sequence + 1, events,
                      issued \cup {connect_token.client_id},
                      Ok(PacketToSend(Challenge(connect_token.client_id,
                                                challenge_sequence + 1))))

\* The Connected arm of process_packet_internal.
ConnectedDispatch(connection, packet) ==
    IF connection.state = "Connected"
    THEN CASE packet.kind = "Disconnect" ->
                [conn |-> [connection EXCEPT !.state = "Disconnected"],
                 res |-> ResultNone]
           [] packet.kind = "Payload" ->
                [conn |-> connection, res |-> Payload("payload")]
           [] OTHER -> [conn |-> connection, res |-> ResultNone]
    ELSE [conn |-> connection, res |-> ResultNone]

\* self.pending_clients.remove(&addr).unwrap() in the Response arm: the map
\* without the entry.
TakePendingClone(pend, addr) == pend
TakePending(pend, addr) == [pend EXCEPT ![addr] = None]

\* The Response arm for a pending address: the entry has left pending_clients
\* (pend is the map without it) and is placed in the first free slot.
AcceptResponse(pending, pend) ==
    LET free == FreeSlot(clients)
    IN IF free = None
       THEN Outcome(clients, pend, challenge_sequence, events, issued,
                    Ok(PacketToSend(ConnectionDenied)))
       ELSE LET client_index == Unwrap(free)
            IN Outcome([clients EXCEPT ![client_index] = Some(pending)], pend,
                       challenge_sequence,
                       Append(events, ClientConnected(pending.client_id)), issued,
                       Ok(PacketToSend(KeepAlive(max_clients, client_index))))

process_packet_internal(addr, buffer, now) ==
    LET same(res) == Outcome(clients, pending_clients, challenge_sequence,
                             events, issued, res)
    IN
    IF buffer.kind = "TooSmall" THEN same(Ok(ResultNone))
    ELSE
    LET slot == SlotByAddr(clients, addr)
    IN
    IF slot # None
    THEN
      LET i == Unwrap(slot)
          connection == Unwrap(clients[i])
          d == Decode(buffer, Some(connection.receive_key))
      IN IF ~d.ok THEN same(d)
         ELSE LET touched == [connection EXCEPT
                                 !.last_packet_received_time = current_time]
                  r == ConnectedDispatch(touched, d.value)
              IN Outcome([clients EXCEPT ![i] = Some(r.conn)], pending_clients,
                         challenge_sequence, events, issued, Ok(r.res))
    ELSE IF pending_clients[addr] # None
    THEN
      LET pending0 == Unwrap(pending_clients[addr])
          d == Decode(buffer, Some(pending0.receive_key))
      IN IF ~d.ok THEN same(d)
         ELSE
           LET pending == [pending0 EXCEPT
                              !.last_packet_received_time = current_time]
               pend == [pending_clients EXCEPT ![addr] = Some(pending)]
               packet == d.value
               touchedOnly(res) == Outcome(clients, pend, challenge_sequence,
                                           events, issued, res)
           IN CASE packet.kind = "ConnectionRequest" ->
                     handle_connection_request(addr, packet.request, now, pend)
                [] packet.kind = "Response" ->
                     IF pending.state = "PendingResponse"
                     THEN LET c == ChallengeDecode(packet)
                          IN IF ~c.ok THEN touchedOnly(c)
                             ELSE AcceptResponse(pending,
                                                 TakePending(pend, addr))
                     ELSE touchedOnly(Ok(ResultNone))
                [] OTHER -> touchedOnly(Ok(ResultNone))
    ELSE
      LET d == Decode(buffer, None)
      IN IF ~d.ok THEN same(d)
         ELSE IF d.value.kind = "ConnectionRequest"
              THEN handle_connection_request(addr, d.value.request, now,
                                             pending_clients)
              ELSE same(Ok(ResultNone))

\* process_packet: an error of process_packet_internal becomes None.
process_packet(addr, buffer, now) ==
    /\ \E o \in {process_packet_internal(addr, buffer, now)} :
          /\ o.challenge_sequence <= MaxChallenge
          /\ clients' = o.clients
          /\ pending_clients' = o.pending_clients
          /\ challenge_sequence' = o.challenge_sequence
          /\ events' = o.events
          /\ issued' = o.issued
          /\ ret' = IF o.res.ok THEN o.res.value ELSE ResultNone
    /\ UNCHANGED <<max_clients, current_time>>
    /\ UNCHANGED chan_vars

connection_timed_out_never(client, now) == FALSE
connection_timed_out_le(client, now) ==
    /\ client.timeout_seconds > 0
    /\ client.last_packet_received_time + client.timeout_seconds * TicksPerSec <= now
connection_timed_out(client, now) ==
    /\ client.timeout_seconds > 0
    /\ client.last_packet_received_time + client.timeout_seconds * TicksPerSec < now

\* The slot loop of update, from slot i on: cl, ev, pk are the clients, the
\* events and the disconnect packets built so far.
RECURSIVE UpdateLoop(_, _, _, _, _)
UpdateLoop(i, now, cl, ev, pk) ==
    IF i \notin DOMAIN cl THEN [clients |-> cl, events |-> ev, packets |-> pk]
    ELSE IF cl[i] = None THEN UpdateLoop(i + 1, now, cl, ev, pk)
    ELSE LET c0 == Unwrap(cl[i])
             client == IF connection_timed_out(c0, now)
                       THEN [c0 EXCEPT !.state = "Disconnected"] ELSE c0
         IN IF client.state = "Disconnected"
            THEN UpdateLoop(i + 1, now, [cl EXCEPT ![i] = None],
                            Append(ev, ClientDisconnected(client.client_id)),
                            Append(pk, <<client.addr, Disconnect>>))
            ELSE UpdateLoop(i + 1, now, [cl EXCEPT ![i] = Some(client)], ev, pk)

update(duration) ==
    /\ current_time + duration <= MaxTime
    /\ current_time' = current_time + duration
    /\ \E o \in {UpdateLoop(0, current_time + duration, clients, events, << >>)} :
          /\ clients' = o.clients
          /\ events' = o.events
          /\ ret' = [type |-> "update", packets |-> o.packets]
    /\ UNCHANGED <<pending_clients, max_clients, challenge_sequence, issued>>
    /\ UNCHANGED chan_vars

\* Packet::encode of a Disconnect into the caller's buffer: fails when the
\* buffer is too short, else gives the encoded length.
DisconnectLen == 1
Encode(buffer_len) ==
    IF buffer_len < DisconnectLen THEN Err("PacketTooSmall") ELSE Ok(DisconnectLen)

update_client(buffer_len, slot) ==
    /\ UNCHANGED chan_vars
    /\ UNCHANGED <<pending_clients, max_clients, challenge_sequence,
                   current_time, issued>>
    /\ IF slot >= Cardinality(DOMAIN clients) \/ clients[slot] = None
       THEN /\ ret' = [type |-> "update_client", value |-> None]
            /\ UNCHANGED <<clients, events>>
       ELSE LET c0 == Unwrap(clients[slot])
                client == IF connection_timed_out(c0, current_time)
                          THEN [c0 EXCEPT !.state = "Disconnected"] ELSE c0
            IN IF client.state = "Disconnected"
               THEN /\ events' = Append(events, ClientDisconnected(client.client_id))
                    /\ clients' = [clients EXCEPT ![slot] = None]
                    /\ LET e == Encode(buffer_len)
                       IN ret' = [type |-> "update_client",
                                  value |-> IF e.ok
                                            THEN Some(<<e.value, client.addr>>)
                                            ELSE None]
               ELSE /\ clients' = [clients EXCEPT ![slot] = Some(client)]
                    /\ ret' = [type |-> "update_client", value |-> None]
                    /\ UNCHANGED events

\* (current_time - connect_start_time).as_secs() >= expire - create
connection_expired(client, now) ==
    (now - client.connect_start_time) \div TicksPerSec
        >= client.expire_timestamp - client.create_timestamp

update_pending_connections ==
    /\ pending_clients' =
         [a \in Addrs |->
            IF pending_clients[a] # None
               /\ connection_expired(Unwrap(pending_clients[a]), current_time)
            THEN None ELSE pending_clients[a]]
    /\ ret' = [type |-> "update_pending_connections"]
    /\ UNCHANGED <<clients, max_clients, challenge_sequence, current_time,
                   events, issued>>
    /\ UNCHANGED chan_vars


(***************************************************************************)
(* Unreliable channels (rechannel/src/channels/unreliable.rs).             *)
(* Bytes are sequences of octets.                                          *)
(***************************************************************************)
SLICE_SIZE == 1200

\* Largest number of send_message calls in one run.
MaxSends == 2
\* Largest number of process_message / process_slice calls made directly
\* on the receive channel in one run.
MaxIngress == 4

\* The message of `len` octets whose octets depend on `tag` and position.
Bytes(tag, len) == [i \in 1..len |-> (tag * 31 + i) % 256]

Tags == {1, 2}
\* A small message, the largest small message, a two-slice message with a
\* short last slice, and a message of two full slices.
MessageLens == {3, SLICE_SIZE, SLICE_SIZE + 50, 2 * SLICE_SIZE}
Messages == {Bytes(t, n) : t \in Tags, n \in MessageLens}

\* max_memory_usage_bytes of the (send, receive) pair.
Caps == {<<SLICE_SIZE + 100, SLICE_SIZE + 100>>,
         <<4 * SLICE_SIZE, 4 * SLICE_SIZE>>,
         <<4 * SLICE_SIZE, 3 * SLICE_SIZE>>}

SliceIds == 0..MaxSends

\* Inputs of the direct calls on the receive channel: whole messages, and
\* slices whose fields are not bound to one another (any num_slices, any
\* index, a full or a short payload).
IngressMessages == {Bytes(1, SLICE_SIZE), Bytes(2, 50)}
IngressSlices ==
    {[message_id |-> 0, slice_index |-> i, num_slices |-> n, payload |-> p] :
        i \in 0..1, n \in 1..3, p \in {Bytes(3, SLICE_SIZE), Bytes(4, 50)}}
    \cup {[message_id |-> 1, slice_index |-> 0, num_slices |-> 2,
           payload |-> Bytes(5, SLICE_SIZE)]}
IngressCaps == {3 * SLICE_SIZE, 2 * SLICE_SIZE + 100}


\* SendChannelUnreliable::new
SendNew(max) ==
    [channel_id |-> 0, unreliable_messages |-> << >>, sliced_message_id |-> 0,
     max_memory_usage_bytes |-> max, memory_usage_bytes |-> 0]

\* ReceiveChannelUnreliable::new. panicked: a call on this channel has
\* panicked (arithmetic overflow in a build with overflow checks).
RecvNew(max) ==
    [channel_id |-> 0, messages |-> << >>,
     slices |-> [id \in SliceIds |-> None],
     slices_last_received |-> [id \in SliceIds |-> None],
     max_memory_usage_bytes |-> max, memory_usage_bytes |-> 0,
     error |-> None, panicked |-> FALSE]

(* usize arithmetic. A usize value is kept as the representative of its    *)
(* residue mod 2^64 that is nearest to zero: a negative number v stands    *)
(* for 2^64 + v, the result of a wrapped subtraction.                      *)
USizeLess(a, b) ==
    \/ a >= 0 /\ b >= 0 /\ a < b
    \/ a >= 0 /\ b < 0
    \/ a < 0 /\ b < 0 /\ a < b

\* --- SendChannelUnreliable ---------------------------------------------

SlicePacket(channel_id, message_id, slice_index, num_slices, payload) ==
    [kind |-> "UnreliableSlice", channel_id |-> channel_id,
     slice |-> [message_id |-> message_id, slice_index |-> slice_index,
                num_slices |-> num_slices, payload |-> payload]]
SmallPacket(channel_id, messages) ==
    [kind |-> "SmallUnreliable", channel_id |-> channel_id, messages |-> messages]

NumSlicesFloor(len) == len \div SLICE_SIZE
NumSlices(len) == (len + SLICE_SIZE - 1) \div SLICE_SIZE

\* Slices that all carry message_id 0, whatever the channel's counter says.
SlicesOfOneId(channel_id, message_id, message) ==
    LET num_slices == NumSlices(Len(message))
    IN [k \in 1..num_slices |->
          LET slice_index == k - 1
              start == slice_index * SLICE_SIZE
              end == IF slice_index = num_slices - 1 THEN Len(message)
                     ELSE (slice_index + 1) * SLICE_SIZE
          IN SlicePacket(channel_id, 0, slice_index, num_slices,
                         SubSeq(message, start + 1, end))]

\* The slices of one message, in index order.
SlicesOf(channel_id, message_id, message) ==
    LET num_slices == NumSlices(Len(message))
    IN [k \in 1..num_slices |->
          LET slice_index == k - 1
              start == slice_index * SLICE_SIZE
              end == IF slice_index = num_slices - 1 THEN Len(message)
                     ELSE (slice_index + 1) * SLICE_SIZE
          IN SlicePacket(channel_id, message_id, slice_index, num_slices,
                         SubSeq(message, start + 1, end))]

\* The while loop with a batch flushed as soon as it would reach SLICE_SIZE.
RECURSIVE DrainLoopGE(_, _, _, _, _, _)
DrainLoopGE(channel_id, queue, packets, small_messages, small_messages_bytes, sliced_message_id) ==
    IF queue = << >>
    THEN [packets |-> IF small_messages # << >>
                      THEN Append(packets, SmallPacket(channel_id, small_messages))
                      ELSE packets,
          sliced_message_id |-> sliced_message_id]
    ELSE LET message == Head(queue)
         IN IF Len(message) > SLICE_SIZE
            THEN DrainLoopGE(channel_id, Tail(queue),
                           packets \o SlicesOf(channel_id, sliced_message_id, message),
                           small_messages, small_messages_bytes,
                           sliced_message_id + 1)
            ELSE IF small_messages_bytes + Len(message) >= SLICE_SIZE
            THEN DrainLoopGE(channel_id, Tail(queue),
                           Append(packets, SmallPacket(channel_id, small_messages)),
                           <<message>>, Len(message), sliced_message_id)
            ELSE DrainLoopGE(channel_id, Tail(queue), packets,
                           Append(small_messages, message),
                           small_messages_bytes + Len(message), sliced_message_id)

\* The while loop of get_messages_to_send over the rest of the queue.
RECURSIVE DrainLoop(_, _, _, _, _, _)
DrainLoop(channel_id, queue, packets, small_messages, small_messages_bytes, sliced_message_id) ==
    IF queue = << >>
    THEN [packets |-> IF small_messages # << >>
                      THEN Append(packets, SmallPacket(channel_id, small_messages))
                      ELSE packets,
          sliced_message_id |-> sliced_message_id]
    ELSE LET message == Head(queue)
         IN IF Len(message) > SLICE_SIZE
            THEN DrainLoop(channel_id, Tail(queue),
                           packets \o SlicesOf(channel_id, sliced_message_id, message),
                           small_messages, small_messages_bytes,
                           sliced_message_id + 1)
            ELSE IF small_messages_bytes + Len(message) > SLICE_SIZE
            THEN DrainLoop(channel_id, Tail(queue),
                           Append(packets, SmallPacket(channel_id, small_messages)),
                           <<message>>, Len(message), sliced_message_id)
            ELSE DrainLoop(channel_id, Tail(queue), packets,
                           Append(small_messages, message),
                           small_messages_bytes + Len(message), sliced_message_id)

\* get_messages_to_send: the packets, and the channel afterwards.
SendDrain(s) ==
    LET d == DrainLoop(s.channel_id, s.unreliable_messages, << >>, << >>, 0,
                       s.sliced_message_id)
    IN [packets |-> d.packets,
        send |-> [s EXCEPT !.unreliable_messages = << >>,
                           !.sliced_message_id = d.sliced_message_id]]

\* The check made on the usage before the message is counted.
SendAcceptsBefore(s, message) ==
    ~(s.max_memory_usage_bytes < s.memory_usage_bytes)
SendAccepts(s, message) ==
    ~(s.max_memory_usage_bytes < s.memory_usage_bytes + Len(message))

SendPushFront(s, message) ==
    IF SendAccepts(s, message)
    THEN [s EXCEPT !.memory_usage_bytes = @ + Len(message),
                   !.unreliable_messages = <<message>> \o @]
    ELSE s

SendPush(s, message) ==
    IF SendAccepts(s, message)
    THEN [s EXCEPT !.memory_usage_bytes = @ + Len(message),
                   !.unreliable_messages = Append(@, message)]
    ELSE s

\* --- SliceConstructor (slice_constructor.rs is not part of the sources) --

SliceConstructorNew(message_id, num_slices) ==
    [message_id |-> message_id, num_slices |-> num_slices,
     num_received_slices |-> 0, received |-> {},
     sliced_data |-> [i \in 1..(num_slices * SLICE_SIZE) |-> 0]]

\* SliceConstructor::process_slice: Err, Ok(None) or Ok(Some(message)),
\* with the constructor afterwards.
ConstructorProcess(c, slice_index, payload) ==
    IF slice_index >= c.num_slices
    THEN [res |-> Err("InvalidSliceIndex"), c |-> c]
    ELSE IF Len(payload) > SLICE_SIZE
            \/ (slice_index < c.num_slices - 1 /\ Len(payload) # SLICE_SIZE)
    THEN [res |-> Err("InvalidSliceMessage"), c |-> c]
    ELSE
      LET start == slice_index * SLICE_SIZE
          is_last == slice_index = c.num_slices - 1
          total == IF is_last THEN start + Len(payload) ELSE Len(c.sliced_data)
          c1 == IF slice_index \in c.received THEN c
                ELSE [c EXCEPT
                        !.received = @ \cup {slice_index},
                        !.num_received_slices = @ + 1,
                        !.sliced_data =
                           SubSeq(@, 1, start) \o payload
                             \o SubSeq(@, start + Len(payload) + 1, total)]
      IN IF c1.num_received_slices = c1.num_slices
         THEN [res |-> Ok(Some(c1.sliced_data)), c |-> c1]
         ELSE [res |-> Ok(None), c |-> c1]

\* --- ReceiveChannelUnreliable --------------------------------------------

RecvAccepts(r, len) ==
    ~USizeLess(r.max_memory_usage_bytes, r.memory_usage_bytes + len)

RecvProcessMessage(r, message) ==
    IF RecvAccepts(r, Len(message))
    THEN [r EXCEPT !.memory_usage_bytes = @ + Len(message),
                   !.messages = Append(@, message)]
    ELSE r

\* What process_slice subtracts when a reassembly completes.
ReleasedOnCompletion(r, slice) == slice.num_slices * SLICE_SIZE

\* process_slice. checked: the build panics on arithmetic overflow instead
\* of wrapping.
RecvProcessSlice(r, slice, slice_time, checked) ==
    LET fresh == r.slices[slice.message_id] = None
        message_len == slice.num_slices * SLICE_SIZE
    IN IF fresh /\ ~RecvAccepts(r, message_len) THEN r
       ELSE
         LET r1 == IF fresh THEN [r EXCEPT !.memory_usage_bytes = @ + message_len]
                   ELSE r
             c0 == IF fresh
                   THEN SliceConstructorNew(slice.message_id, slice.num_slices)
                   ELSE Unwrap(r.slices[slice.message_id])
             p == ConstructorProcess(c0, slice.slice_index, slice.payload)
             r2 == [r1 EXCEPT !.slices[slice.message_id] = Some(p.c)]
         IN IF ~p.res.ok THEN [r2 EXCEPT !.error = Some(p.res.error)]
            ELSE IF p.res.value = None
            THEN [r2 EXCEPT !.slices_last_received[slice.message_id] =
                               Some(slice_time)]
            ELSE
              LET message == Unwrap(p.res.value)
                  r3 == [r2 EXCEPT !.slices[slice.message_id] = None,
                                   !.slices_last_received[slice.message_id] = None]
                  released == ReleasedOnCompletion(r, slice)
              IN IF checked /\ USizeLess(r3.memory_usage_bytes, released)
                 THEN [r3 EXCEPT !.panicked = TRUE]
                 ELSE [r3 EXCEPT
                         !.memory_usage_bytes = @ - released + Len(message),
                         !.messages = Append(@, message)]

\* Feeding one packet as the tests do: process_message for every message of
\* a batch, in order; process_slice for a slice.
RECURSIVE FeedMessages(_, _)
FeedMessages(r, messages) ==
    IF messages = << >> THEN r
    ELSE FeedMessages(RecvProcessMessage(r, Head(messages)), Tail(messages))

FeedPacket(r, packet, checked) ==
    IF packet.kind = "SmallUnreliable" THEN FeedMessages(r, packet.messages)
    ELSE RecvProcessSlice(r, packet.slice, 0, checked)

\* --- actions -----------------------------------------------------------

send_message(message) ==
    /\ calls < MaxSends
    /\ calls' = calls + 1
    /\ send' = SendPush(send, message)
    /\ accepted' = IF SendAccepts(send, message) THEN Append(accepted, message)
                   ELSE accepted
    /\ chan_ret' = [type |-> "send_message"]
    /\ UNCHANGED <<recv, wire, delivered, overflow_checks>>
    /\ UNCHANGED server_vars

get_messages_to_send ==
    /\ \E d \in {SendDrain(send)} :
          /\ send' = d.send
          /\ wire' = wire \o d.packets
          /\ chan_ret' = [type |-> "get_messages_to_send", packets |-> d.packets]
    /\ UNCHANGED <<recv, accepted, delivered, calls, overflow_checks>>
    /\ UNCHANGED server_vars

\* The receiver is handed the next packet, in the order returned.
feed_packet ==
    /\ wire # << >>
    /\ ~recv.panicked
    /\ recv' = FeedPacket(recv, Head(wire), overflow_checks)
    /\ wire' = Tail(wire)
    /\ chan_ret' = [type |-> "feed_packet"]
    /\ UNCHANGED <<send, accepted, delivered, calls, overflow_checks>>
    /\ UNCHANGED server_vars

receive_message ==
    /\ ~recv.panicked
    /\ IF recv.messages = << >>
       THEN /\ chan_ret' = [type |-> "receive_message", value |-> None]
            /\ UNCHANGED <<recv, delivered>>
       ELSE LET message == Head(recv.messages)
            IN IF overflow_checks
                  /\ USizeLess(recv.memory_usage_bytes, Len(message))
               THEN /\ recv' = [recv EXCEPT !.messages = Tail(@),
                                            !.panicked = TRUE]
                    /\ chan_ret' = [type |-> "panic"]
                    /\ UNCHANGED delivered
               ELSE /\ recv' = [recv EXCEPT
                                  !.messages = Tail(@),
                                  !.memory_usage_bytes = @ - Len(message)]
                    /\ delivered' = Append(delivered, message)
                    /\ chan_ret' = [type |-> "receive_message",
                                    value |-> Some(message)]
    /\ UNCHANGED <<send, wire, accepted, calls, overflow_checks>>
    /\ UNCHANGED server_vars

\* Direct calls on the receive channel with inputs of the caller's choosing.
process_message(message) ==
    /\ calls < MaxIngress
    /\ ~recv.panicked
    /\ calls' = calls + 1
    /\ recv' = RecvProcessMessage(recv, message)
    /\ chan_ret' = [type |-> "process_message"]
    /\ UNCHANGED <<send, wire, accepted, delivered, overflow_checks>>
    /\ UNCHANGED server_vars

process_slice(slice, slice_time) ==
    /\ calls < MaxIngress
    /\ ~recv.panicked
    /\ calls' = calls + 1
    /\ recv' = RecvProcessSlice(recv, slice, slice_time, overflow_checks)
    /\ chan_ret' = [type |-> "process_slice"]
    /\ UNCHANGED <<send, wire, accepted, delivered, overflow_checks>>
    /\ UNCHANGED server_vars


ChannelInit(caps, checked) ==
    /\ send = SendNew(caps[1])
    /\ recv = RecvNew(caps[2])
    /\ wire = << >>
    /\ accepted = << >>
    /\ delivered = << >>
    /\ calls = 0
    /\ chan_ret = [type |-> "new"]
    /\ overflow_checks = checked

\* Server::new
ServerInit ==
    /\ max_clients \in Capacities
    /\ clients = [i \in 0..(max_clients - 1) |-> None]
    /\ pending_clients = [a \in Addrs |-> None]
    /\ challenge_sequence = 0
    /\ current_time = 0
    /\ events = << >>
    /\ issued = {}
    /\ ret = [type |-> "new"]

Next ==
    \/ \E addr \in Addrs, buffer \in Buffers(issued) :
         \E now \in WallClockReadings(buffer) : process_packet(addr, buffer, now)
    \/ \E duration \in 0..MaxDt : update(duration)
    \/ \E buffer_len \in 0..1, slot \in 0..max_clients : update_client(buffer_len, slot)
    \/ update_pending_connections

\* The server alone; the channels stay as constructed.
Init == ServerInit /\ ChannelInit(<<SLICE_SIZE, SLICE_SIZE>>, FALSE)
Spec == Init /\ [][Next]_vars

\* One send channel feeding one receive channel; the server stays idle.
PipeInit ==
    /\ ServerInit /\ max_clients = 1
    /\ \E caps \in Caps, checked \in BOOLEAN : ChannelInit(caps, checked)
PipeNext ==
    \/ \E message \in Messages : send_message(message)
    \/ get_messages_to_send
    \/ feed_packet
    \/ receive_message
PipeSpec == PipeInit /\ [][PipeNext]_vars

\* The receive channel alone, driven by arbitrary inputs.
IngressInit ==
    /\ ServerInit /\ max_clients = 1
    /\ \E cap \in IngressCaps, checked \in BOOLEAN :
          ChannelInit(<<SLICE_SIZE, cap>>, checked)
IngressNext ==
    \/ \E message \in IngressMessages : process_message(message)
    \/ \E slice \in IngressSlices : process_slice(slice, 0)
    \/ receive_message
IngressSpec == IngressInit /\ [][IngressNext]_vars

\* The channels of tests::max_memory: a send channel of cap 40, a receive
\* channel of cap 50 and messages of 50 octets; with them, send channels
\* whose cap holds one and two such messages.
TestSendCap == 40
TestRecvCap == 50
TestMessageLen == 50
CapMessages == {Bytes(5, TestMessageLen), Bytes(6, TestMessageLen)}
CapCaps == {<<TestSendCap, TestRecvCap>>,
            <<TestMessageLen, TestRecvCap>>,
            <<2 * TestMessageLen, TestRecvCap>>}
CapInit ==
    /\ ServerInit /\ max_clients = 1
    /\ \E caps \in CapCaps : ChannelInit(caps, FALSE)
CapNext ==
    \/ \E message \in CapMessages : send_message(message)
    \/ get_messages_to_send
    \/ feed_packet
    \/ receive_message
    \/ \E message \in CapMessages : process_message(message)
CapSpec == CapInit /\ [][CapNext]_vars

\* The channels of tests::slice_packet, with large messages only and the
\* packets handed to the receiver in any order.
TestMaxMemory == 10000
SliceMessages == {Bytes(5, 3 * SLICE_SIZE), Bytes(6, SLICE_SIZE + 50)}

\* The receiver is handed any one of the packets in flight.
feed_any_packet(i) ==
    /\ i \in 1..Len(wire)
    /\ ~recv.panicked
    /\ recv' = FeedPacket(recv, wire[i], overflow_checks)
    /\ wire' = SubSeq(wire, 1, i - 1) \o SubSeq(wire, i + 1, Len(wire))
    /\ chan_ret' = [type |-> "feed_packet"]
    /\ UNCHANGED <<send, accepted, delivered, calls, overflow_checks>>
    /\ UNCHANGED server_vars

ReorderInit ==
    /\ ServerInit /\ max_clients = 1
    /\ \E checked \in BOOLEAN :
          ChannelInit(<<TestMaxMemory, TestMaxMemory>>, checked)
ReorderNext ==
    \/ \E message \in SliceMessages : send_message(message)
    \/ get_messages_to_send
    \/ \E i \in 1..Len(wire) : feed_any_packet(i)
    \/ receive_message
ReorderSpec == ReorderInit /\ [][ReorderNext]_vars

\* The channels of tests::small_packet, with more messages of more sizes:
\* empty, tiny, half a packet, a full packet, and one that is sliced.
MaxBatchSends == 3
BatchMessages == {Bytes(1, 0), Bytes(2, 3), Bytes(3, SLICE_SIZE \div 2),
                  Bytes(4, SLICE_SIZE), Bytes(5, SLICE_SIZE + 50)}

send_batch_message(message) ==
    /\ calls < MaxBatchSends
    /\ calls' = calls + 1
    /\ send' = SendPush(send, message)
    /\ accepted' = IF SendAccepts(send, message) THEN Append(accepted, message)
                   ELSE accepted
    /\ chan_ret' = [type |-> "send_message"]
    /\ UNCHANGED <<recv, wire, delivered, overflow_checks>>
    /\ UNCHANGED server_vars

BatchInit ==
    /\ ServerInit /\ max_clients = 1
    /\ ChannelInit(<<TestMaxMemory, TestMaxMemory>>, FALSE)
BatchNext ==
    \/ \E message \in BatchMessages : send_batch_message(message)
    \/ get_messages_to_send
    \/ feed_packet
    \/ receive_message
BatchSpec == BatchInit /\ [][BatchNext]_vars

(***************************************************************************)
(* Fairness: the embedder keeps calling update with positive elapsed time. *)
(***************************************************************************)
Tick == \E duration \in 1..MaxDt : update(duration)
LiveSpec == Init /\ [][Next]_vars /\ WF_vars(Tick)

(***************************************************************************)
(* Helpers of the properties.                                              *)
(***************************************************************************)
InSlot(addr) == SlotByAddr(clients, addr) # None
ClientAt(addr) == Unwrap(clients[Unwrap(SlotByAddr(clients, addr))])

\* The elements of a set of slot indices, in increasing order.
RECURSIVE InOrder(_)
InOrder(S) ==
    IF S = {} THEN << >>
    ELSE LET m == CHOOSE i \in S : \A j \in S : i <= j
         IN <<m>> \o InOrder(S \ {m})

ResponseBuffers == {b \in Buffers(ClientIds) : b.kind = "Response"}
SealedBuffers == {b \in Buffers(ClientIds) :
                    b.kind \in {"Payload", "Disconnect", "KeepAlive", "Response"}}

(***************************************************************************)
(* C1. No two occupied entries of clients have the same client_id, and no  *)
(* two have the same addr, in any reachable state.                         *)
(***************************************************************************)
C1_UniqueClients ==
    \A i, j \in Occupied(clients) :
        i # j => /\ Unwrap(clients[i]).client_id # Unwrap(clients[j]).client_id
                 /\ Unwrap(clients[i]).addr # Unwrap(clients[j]).addr

(***************************************************************************)
(* C2. Every occupied clients entry is Connected or Disconnected (never    *)
(* PendingResponse or TimedOut), and every pending_clients entry is        *)
(* PendingResponse.                                                        *)
(***************************************************************************)
C2_SlotStates ==
    /\ \A i \in Occupied(clients) :
          Unwrap(clients[i]).state \in {"Connected", "Disconnected"}
    /\ \A a \in Addrs :
          pending_clients[a] # None =>
             Unwrap(pending_clients[a]).state = "PendingResponse"

(***************************************************************************)
(* C3. For an address that holds a clients slot, process_packet on a       *)
(* Payload sealed with the connection's receive key returns                *)
(* ServerResult::Payload; on a sealed Disconnect it returns None and       *)
(* leaves the connection Disconnected; on any other sealed packet it       *)
(* returns None.                                                           *)
(***************************************************************************)
C3_ConnectedPackets ==
    [][\A addr \in Addrs, buffer \in SealedBuffers :
          ( /\ InSlot(addr)
            /\ buffer.key = ClientAt(addr).receive_key
            /\ process_packet(addr, buffer, 10) )
          => CASE buffer.kind = "Payload" -> ret'.type = "Payload"
               [] buffer.kind = "Disconnect" ->
                    /\ ret' = ResultNone
                    /\ InSlot(addr)'
                    /\ ClientAt(addr)'.state = "Disconnected"
               [] OTHER -> ret' = ResultNone]_vars

(***************************************************************************)
(* C8. A valid Response from a pending address while a slot is free moves  *)
(* the pending entry into a free slot, enqueues exactly one                *)
(* ClientConnected(client_id) and is answered with KeepAlive carrying      *)
(* max_clients and the index of that slot; and a connection keeps its      *)
(* index for as long as its slot is occupied.                              *)
(***************************************************************************)
C8_ResponseStep ==
    \A addr \in Addrs :
        ( /\ ~InSlot(addr)
          /\ pending_clients[addr] # None
          /\ Unwrap(pending_clients[addr]).state = "PendingResponse"
          /\ FreeSlot(clients) # None )
        => \A buffer \in ResponseBuffers :
             ( /\ buffer.key = Unwrap(pending_clients[addr]).receive_key
               /\ buffer.challenge.authentic
               /\ process_packet(addr, buffer, 10) )
             => LET pending == Unwrap(pending_clients[addr])
                IN /\ pending_clients'[addr] = None
                   /\ events' = Append(events,
                                       <<"ClientConnected", pending.client_id>>)
                   /\ \E i \in DOMAIN clients :
                         /\ clients[i] = None
                         /\ clients'[i] # None
                         /\ Unwrap(clients'[i]).addr = addr
                         /\ Unwrap(clients'[i]).client_id = pending.client_id
                         /\ \A j \in DOMAIN clients \ {i} :
                               clients'[j] = clients[j]
                         /\ ret' = [type |-> "PacketToSend",
                                    packet |-> [kind |-> "KeepAlive",
                                                max_clients |-> max_clients,
                                                client_index |-> i]]

C8_IndexStable ==
    \A i \in DOMAIN clients :
        (clients[i] # None /\ clients'[i] # None)
        => /\ Unwrap(clients'[i]).addr = Unwrap(clients[i]).addr
           /\ Unwrap(clients'[i]).client_id = Unwrap(clients[i]).client_id

C8_ResponseAccepted == [][C8_ResponseStep /\ C8_IndexStable]_vars

\* A Response has just been accepted into the second slot.
C8_Witness ==
    /\ ret.type = "PacketToSend"
    /\ ret.packet.kind = "KeepAlive"
    /\ ret.packet.client_index = 1
    /\ clients[1] # None
    /\ events # << >>
    /\ events[Len(events)] = <<"ClientConnected", Unwrap(clients[1]).client_id>>

(***************************************************************************)
(* C9. update(dt) adds dt to current_time; an occupied slot is vacated,    *)
(* with one ClientDisconnected(client_id) enqueued and (addr, Disconnect)  *)
(* returned, if and only if its connection is Disconnected or              *)
(* timeout_seconds > 0 and last_packet_received_time + timeout_seconds is  *)
(* strictly less than the new current_time; every other slot and           *)
(* pending_clients are unchanged.                                          *)
(***************************************************************************)
C9_Reaped(c, now) ==
    \/ c.state = "Disconnected"
    \/ /\ c.timeout_seconds > 0
       /\ c.last_packet_received_time + c.timeout_seconds * TicksPerSec < now

C9_UpdateStep ==
    \A duration \in 0..MaxDt :
        update(duration) =>
          LET now == current_time + duration
              R == {i \in Occupied(clients) : C9_Reaped(Unwrap(clients[i]), now)}
              order == InOrder(R)
          IN /\ current_time' = now
             /\ \A i \in DOMAIN clients :
                   clients'[i] = IF i \in R THEN None ELSE clients[i]
             /\ pending_clients' = pending_clients
             /\ events' = events \o
                   [k \in 1..Len(order) |->
                      <<"ClientDisconnected", Unwrap(clients[order[k]]).client_id>>]
             /\ ret'.packets =
                   [k \in 1..Len(order) |->
                      <<Unwrap(clients[order[k]]).addr, [kind |-> "Disconnect"]>>]

C9_Update == [][C9_UpdateStep]_vars

\* update has just reaped a client while another, whose deadline is not
\* yet passed, stays in its slot.
C9_Witness ==
    /\ ret.type = "update"
    /\ Len(ret.packets) = 1
    /\ events[Len(events)][1] = "ClientDisconnected"
    /\ \E i \in Occupied(clients) :
          /\ Unwrap(clients[i]).timeout_seconds > 0
          /\ Unwrap(clients[i]).last_packet_received_time
               + Unwrap(clients[i]).timeout_seconds * TicksPerSec = current_time

(***************************************************************************)
(* C10. Liveness, under repeated update calls with positive elapsed time:  *)
(* a client that holds a slot and is not heard from again is eventually    *)
(* removed from clients, and every removal enqueues ClientDisconnected.    *)
(* Silence is read off last_packet_received_time: the client either leaves *)
(* its slot or a later packet from it moves that time.  The deadline must  *)
(* lie before MaxTime, where the modelled clock stops.                     *)
(***************************************************************************)
Deadline(c) ==
    c.last_packet_received_time
      + (IF c.timeout_seconds > 0 THEN c.timeout_seconds * TicksPerSec ELSE 0)

SilentSince(addr, t) ==
    /\ InSlot(addr)
    /\ ClientAt(addr).last_packet_received_time = t
    /\ Deadline(ClientAt(addr)) < MaxTime

GoneOrHeard(addr, t) ==
    \/ ~InSlot(addr)
    \/ ClientAt(addr).last_packet_received_time # t

RemovalEmitsEvent ==
    \A i \in DOMAIN clients :
        (clients[i] # None /\ clients'[i] = None)
        => /\ Len(events') > Len(events)
           /\ \E k \in (Len(events) + 1)..Len(events') :
                 events'[k] = <<"ClientDisconnected", Unwrap(clients[i]).client_id>>

TimeoutDisabledNeverReaped ==
    [][\A duration \in 0..MaxDt, i \in DOMAIN clients :
          ( /\ clients[i] # None
            /\ Unwrap(clients[i]).timeout_seconds <= 0
            /\ Unwrap(clients[i]).state # "Disconnected"
            /\ update(duration) )
          => clients'[i] = clients[i]]_vars

(***************************************************************************)
(* Helpers of the channel properties.                                      *)
(***************************************************************************)
RECURSIVE SumLen(_)
SumLen(messages) ==
    IF messages = << >> THEN 0 ELSE Len(Head(messages)) + SumLen(Tail(messages))

\* The buffer a reassembly in flight holds: num_slices * SLICE_SIZE octets.
RECURSIVE SumReserved(_, _)
SumReserved(slices, ids) ==
    IF ids = {} THEN 0
    ELSE LET id == CHOOSE x \in ids : TRUE
         IN (IF slices[id] = None THEN 0
             ELSE Unwrap(slices[id]).num_slices * SLICE_SIZE)
            + SumReserved(slices, ids \ {id})

\* What the receive channel must hold to take message m in: the message
\* itself, or the reassembly buffer of a message larger than SLICE_SIZE.
Footprint(m) ==
    IF Len(m) > SLICE_SIZE
    THEN ((Len(m) + SLICE_SIZE - 1) \div SLICE_SIZE) * SLICE_SIZE
    ELSE Len(m)

RECURSIVE SumFootprint(_)
SumFootprint(messages) ==
    IF messages = << >> THEN 0
    ELSE Footprint(Head(messages)) + SumFootprint(Tail(messages))

IsSmall(m) == Len(m) <= SLICE_SIZE
IsLarge(m) == Len(m) > SLICE_SIZE

\* Every queued message was drained and every packet fed.
AllFed == send.unreliable_messages = << >> /\ wire = << >>
\* ... and every message the receiver took in was handed out.
AllThrough ==
    /\ AllFed
    /\ recv.messages = << >>
    /\ \A id \in SliceIds : recv.slices[id] = None

ReceivedNone == chan_ret = [type |-> "receive_message", value |-> None]

(***************************************************************************)
(* C4. On a receive channel driven by arbitrary process_message,           *)
(* process_slice and receive_message calls, the lengths of the queued      *)
(* messages plus the buffers of the reassemblies in flight never exceed    *)
(* max_memory_usage_bytes.                                                 *)
(***************************************************************************)
C4_MemoryBound ==
    SumLen(recv.messages) + SumReserved(recv.slices, SliceIds)
        <= recv.max_memory_usage_bytes

(***************************************************************************)
(* C5. Round trip. Fresh send and receive channels with the same           *)
(* max_memory_usage_bytes; one message m, 0 < |m| <= max, is sent, drained *)
(* and every packet fed: receive_message returns m once and then None.     *)
(***************************************************************************)
C5_OneMessageFed ==
    /\ calls = 1
    /\ Len(accepted) = 1
    /\ send.max_memory_usage_bytes = recv.max_memory_usage_bytes
    /\ AllFed

\* As stated: for every message of at most max_memory_usage_bytes octets.
C5_RoundTrip ==
    /\ (C5_OneMessageFed /\ ReceivedNone) => delivered = accepted
    /\ calls = 1 => delivered \in {<< >>, accepted}

\* For every message whose footprint on the receive side (the reassembly
\* buffer, for a message larger than SLICE_SIZE) fits max_memory_usage_bytes.
C5_RoundTripFitting ==
    /\ ( /\ C5_OneMessageFed
         /\ Footprint(accepted[1]) <= recv.max_memory_usage_bytes
         /\ ReceivedNone )
       => delivered = accepted
    /\ calls = 1 => delivered \in {<< >>, accepted}

\* A message with a short last slice went through and the queue is empty.
C5_Witness ==
    /\ C5_OneMessageFed
    /\ ReceivedNone
    /\ Len(accepted[1]) = SLICE_SIZE + 50
    /\ delivered = accepted

(***************************************************************************)
(* C6. Send order. When the packets are fed in the order returned and the  *)
(* receive channel has memory for all of them, receive_message yields the  *)
(* accepted messages in the order they were passed to send_message.        *)
(***************************************************************************)
C6_Through == AllThrough /\ SumFootprint(accepted) <= recv.max_memory_usage_bytes

\* As stated: for any mix of small messages and messages larger than
\* SLICE_SIZE.
C6_SendOrder == C6_Through => delivered = accepted

\* Order is kept among the small messages and among the sliced messages.
C6_SendOrderWithinKind ==
    C6_Through =>
       /\ Len(delivered) = Len(accepted)
       /\ SelectSeq(delivered, IsSmall) = SelectSeq(accepted, IsSmall)
       /\ SelectSeq(delivered, IsLarge) = SelectSeq(accepted, IsLarge)

\* A sliced message and a small message after it came out in send order.
C6_Witness ==
    /\ C6_Through
    /\ Len(accepted) = 2
    /\ IsLarge(accepted[1]) /\ IsSmall(accepted[2])
    /\ delivered = accepted

(***************************************************************************)
(* C7. After every get_messages_to_send the send channel's                 *)
(* memory_usage_bytes is 0, so that a message of at most                   *)
(* max_memory_usage_bytes octets sent to a drained channel is accepted.    *)
(***************************************************************************)
C7_DrainClearsMemory ==
    /\ chan_ret.type = "get_messages_to_send" => send.memory_usage_bytes = 0
    /\ send.unreliable_messages = << >> =>
          \A m \in Messages :
             Len(m) <= send.max_memory_usage_bytes => SendAccepts(send, m)

(***************************************************************************)
(* C11. A pending connection whose expiry window has lapsed, that is       *)
(* (current_time - connect_start_time) in whole seconds >=                 *)
(* expire_timestamp - create_timestamp, never moves to a clients slot      *)
(* (no Response received after the window produces a connected client),    *)
(* and update_pending_connections removes exactly the lapsed entries.      *)
(***************************************************************************)
PendingLapsed(addr) ==
    /\ pending_clients[addr] # None
    /\ connection_expired(Unwrap(pending_clients[addr]), current_time)

C11_NoLateConnect ==
    \A addr \in Addrs : (PendingLapsed(addr) /\ ~InSlot(addr)) => ~InSlot(addr)'

C11_ReaperStep ==
    update_pending_connections =>
        \A addr \in Addrs :
            pending_clients'[addr] =
                IF PendingLapsed(addr) THEN None ELSE pending_clients[addr]

C11_LapsedPendingDropped == [][C11_NoLateConnect /\ C11_ReaperStep]_vars

\* The reaper half alone.
PendingReaper == [][C11_ReaperStep]_vars

(***************************************************************************)
(* C12. process_packet on a datagram that is too small, does not decode or *)
(* open under the applicable key, carries a Response whose challenge token *)
(* does not verify (the token is verified for a pending address only), or  *)
(* carries a ConnectionRequest whose token fails validation, returns None  *)
(* and leaves unchanged: the addresses in clients and in pending_clients,  *)
(* every connection's state, every connected client's                      *)
(* last_packet_received_time, challenge_sequence and the event queue.      *)
(***************************************************************************)
AllBuffers == Buffers(ClientIds)

\* The key a datagram from addr is opened with.
ApplicableKey(addr) ==
    IF InSlot(addr) THEN Some(ClientAt(addr).receive_key)
    ELSE IF pending_clients[addr] # None
    THEN Some(Unwrap(pending_clients[addr]).receive_key)
    ELSE None

Invalid(addr, buffer, now) ==
    CASE buffer.kind \in {"TooSmall", "Garbage"} -> TRUE
      [] buffer.kind = "ConnectionRequest" ->
            ~validate_client_token(buffer.request, now).ok
      [] OTHER ->
            \/ ApplicableKey(addr) # Some(buffer.key)
            \/ /\ buffer.kind = "Response"
               /\ ~InSlot(addr)
               /\ ~buffer.challenge.authentic

SlotFields(cl) ==
    [i \in DOMAIN cl |->
        IF cl[i] = None THEN None
        ELSE Some(<<Unwrap(cl[i]).addr, Unwrap(cl[i]).client_id,
                    Unwrap(cl[i]).state>>)]
SlotTimes(cl) ==
    [i \in DOMAIN cl |->
        IF cl[i] = None THEN None
        ELSE Some(Unwrap(cl[i]).last_packet_received_time)]
PendingFields(pend) ==
    [a \in Addrs |->
        IF pend[a] = None THEN None
        ELSE Some(<<Unwrap(pend[a]).client_id, Unwrap(pend[a]).state>>)]

C12_Quiet ==
    /\ ret' = ResultNone
    /\ SlotFields(clients') = SlotFields(clients)
    /\ PendingFields(pending_clients') = PendingFields(pending_clients)
    /\ challenge_sequence' = challenge_sequence
    /\ events' = events

\* C12 as stated, written as "the step is quiet, or it is no process_packet
\* call on an invalid datagram".
C12_InvalidPacketsIgnored ==
    [][\/ C12_Quiet /\ SlotTimes(clients') = SlotTimes(clients)
       \/ \A addr \in Addrs, buffer \in AllBuffers, now \in WallClocks :
             ~(Invalid(addr, buffer, now) /\ process_packet(addr, buffer, now))
      ]_vars

\* The same without last_packet_received_time: an invalid datagram touches
\* nothing but that field of the connection at its source address.
InvalidPacketsTouchOnlyTime ==
    [][\A addr \in Addrs :
          \/ /\ C12_Quiet
             /\ \A i \in DOMAIN clients :
                   (clients[i] # None /\ Unwrap(clients[i]).addr # addr)
                   => clients'[i] = clients[i]
          \/ \A buffer \in AllBuffers, now \in WallClocks :
                ~(Invalid(addr, buffer, now) /\ process_packet(addr, buffer, now))
      ]_vars

(***************************************************************************)
(* C13. Server full. When every clients slot is occupied, a                *)
(* ConnectionRequest with a valid token, from an address that holds no     *)
(* slot and for a client_id that holds no slot, is answered with           *)
(* ConnectionDenied; afterwards pending_clients has no entry at that       *)
(* address and challenge_sequence is unchanged.                            *)
(***************************************************************************)
RequestBuffers == {b \in AllBuffers : b.kind = "ConnectionRequest"}

ServerFull == Cardinality(Occupied(clients)) >= max_clients

\* Some occupied slot holds client_id id.
IdConnected(id) == \E i \in Occupied(clients) : Unwrap(clients[i]).client_id = id

\* A request that passes validation now, from an address and for a
\* client_id that are not connected.
FreshValidRequest(addr, buffer, now) ==
    /\ validate_client_token(buffer.request, now).ok
    /\ ~InSlot(addr)
    /\ ~IdConnected(buffer.request.token.client_id)

C13_ServerFullDenied ==
    [][ServerFull =>
         \A addr \in Addrs, buffer \in RequestBuffers, now \in WallClocks :
            ( /\ FreshValidRequest(addr, buffer, now)
              /\ process_packet(addr, buffer, now) )
            => /\ ret' = PacketToSend(ConnectionDenied)
               /\ pending_clients'[addr] = None
               /\ challenge_sequence' = challenge_sequence]_vars

\* A request from an address that never was pending has been denied: one
\* Challenge was issued in all, to the client that fills the only slot.
C13_Witness ==
    /\ ret = PacketToSend(ConnectionDenied)
    /\ max_clients = 1
    /\ clients[0] # None
    /\ challenge_sequence = 1

(***************************************************************************)
(* C14. In every reachable state no address is at the same time the addr   *)
(* of an occupied clients slot and a key of pending_clients.               *)
(***************************************************************************)
C14_AddrInOnePlace ==
    \A addr \in Addrs : ~(InSlot(addr) /\ pending_clients[addr] # None)

\* A Response has just moved one address from pending_clients to a slot
\* while the other address is pending.
C14_Witness ==
    /\ ret.type = "PacketToSend"
    /\ ret.packet.kind = "KeepAlive"
    /\ \E a, b \in Addrs :
          /\ InSlot(a) /\ pending_clients[a] = None
          /\ ~InSlot(b) /\ pending_clients[b] # None

(***************************************************************************)
(* C15. Handshake start. A ConnectionRequest with a valid token, from an   *)
(* address that is neither connected nor pending, for a client_id that is  *)
(* not connected, while a slot is free, is answered with Challenge, and    *)
(* afterwards pending_clients holds an entry at that address in state      *)
(* PendingResponse with the token's client_id, keys and timeout_seconds    *)
(* and with connect_start_time equal to current_time.                      *)
(***************************************************************************)
C15_HandshakeStart ==
    [][\A addr \in Addrs :
         (pending_clients[addr] = None /\ ~ServerFull) =>
         \A buffer \in RequestBuffers, now \in WallClocks :
            ( /\ FreshValidRequest(addr, buffer, now)
              /\ process_packet(addr, buffer, now) )
            => LET token == buffer.request.token
               IN /\ ret'.type = "PacketToSend"
                  /\ ret'.packet.kind = "Challenge"
                  /\ pending_clients'[addr] # None
                  /\ LET pending == Unwrap(pending_clients'[addr])
                     IN /\ pending.state = "PendingResponse"
                        /\ pending.addr = addr
                        /\ pending.client_id = token.client_id
                        /\ pending.send_key = token.server_to_client_key
                        /\ pending.receive_key = token.client_to_server_key
                        /\ pending.timeout_seconds = token.timeout_seconds
                        /\ pending.connect_start_time = current_time]_vars

\* A handshake has just been started at a time other than 0, by a client
\* whose token enables the timeout.
C15_Witness ==
    /\ ret.type = "PacketToSend"
    /\ ret.packet.kind = "Challenge"
    /\ current_time > 0
    /\ \E addr \in Addrs :
          /\ pending_clients[addr] # None
          /\ Unwrap(pending_clients[addr]).connect_start_time = current_time
          /\ Unwrap(pending_clients[addr]).client_id = ret.packet.client_id
          /\ Unwrap(pending_clients[addr]).timeout_seconds > 0

(***************************************************************************)
(* C16. Memory cap on send, with a send channel of cap 40 and a receive    *)
(* channel of cap 50 and messages of 50 octets: of two send_message calls  *)
(* the first is kept and the second dropped, get_messages_to_send returns  *)
(* one SmallUnreliable packet holding exactly one message, the receiver    *)
(* enqueues that message and drops a further 50-octet process_message.     *)
(***************************************************************************)
TestChannels ==
    /\ send.max_memory_usage_bytes = TestSendCap
    /\ recv.max_memory_usage_bytes = TestRecvCap

\* The receiver takes a 50-octet message when it holds none and drops it
\* when it holds one.
C16_ReceiverStep ==
    \A m \in CapMessages :
        process_message(m) =>
            recv'.messages = IF recv.messages = << >> THEN <<m>> ELSE recv.messages

SequenceStaysZero ==
    /\ \A i \in Occupied(clients) : Unwrap(clients[i]).sequence = 0
    /\ \A addr \in Addrs :
          pending_clients[addr] # None => Unwrap(pending_clients[addr]).sequence = 0

\* update_client encodes a packet only for a connection it removes.
SealedOnlyOnRemoval ==
    [][\A buffer_len \in 0..1, slot \in DOMAIN clients :
          (update_client(buffer_len, slot) /\ ret'.value # None)
          => (clients[slot] # None /\ clients'[slot] = None)]_vars

(***************************************************************************)
(* C18. challenge_sequence never decreases and is incremented before every *)
(* Challenge reply: each Challenge is sealed with the incremented value,   *)
(* hence with a sequence greater than that of every earlier Challenge; and *)
(* a request that is denied, dropped as a duplicate or fails validation    *)
(* produces no Challenge and leaves challenge_sequence as it is.           *)
(***************************************************************************)
IsChallenge(r) == r.type = "PacketToSend" /\ r.packet.kind = "Challenge"

\* A ConnectionRequest that must not be answered with a Challenge.
Refused(addr, buffer, now) ==
    \/ ~validate_client_token(buffer.request, now).ok
    \/ InSlot(addr)
    \/ IdConnected(buffer.request.token.client_id)
    \/ ServerFull

C18_ChallengeStep ==
    /\ challenge_sequence' >= challenge_sequence
    /\ IF IsChallenge(ret')
       THEN /\ challenge_sequence' = challenge_sequence + 1
            /\ ret'.packet.sequence = challenge_sequence'
       ELSE challenge_sequence' = challenge_sequence

C18_NoChallengeWhenRefused ==
    \/ ~IsChallenge(ret') /\ challenge_sequence' = challenge_sequence
    \/ \A addr \in Addrs, buffer \in RequestBuffers, now \in WallClocks :
          ~(Refused(addr, buffer, now) /\ process_packet(addr, buffer, now))

C18_ChallengeSequence ==
    [][C18_ChallengeStep /\ C18_NoChallengeWhenRefused]_vars

\* A second Challenge has just been issued, sealed with sequence 2.
C18_Witness ==
    /\ IsChallenge(ret)
    /\ ret.packet.sequence = 2
    /\ challenge_sequence = 2

(***************************************************************************)
(* C19. A ConnectionRequest with a valid token whose source address is     *)
(* already connected, or whose client_id is already held by an occupied    *)
(* slot, gets no reply (None), creates no pending entry, does not          *)
(* increment challenge_sequence and emits no event, whether it comes from  *)
(* an unknown address or from an address that is pending.                  *)
(***************************************************************************)
PendingAddrs(pend) == {a \in Addrs : pend[a] # None}

Duplicate(addr, buffer, now) ==
    /\ validate_client_token(buffer.request, now).ok
    /\ \/ InSlot(addr)
       \/ IdConnected(buffer.request.token.client_id)

C19_Silent ==
    /\ ret' = ResultNone
    /\ PendingAddrs(pending_clients') = PendingAddrs(pending_clients)
    /\ challenge_sequence' = challenge_sequence
    /\ events' = events

C19_DuplicateRequestSilent ==
    [][\/ C19_Silent
       \/ \A addr \in Addrs, buffer \in RequestBuffers, now \in WallClocks :
             ~(Duplicate(addr, buffer, now) /\ process_packet(addr, buffer, now))
      ]_vars

\* A client_id is connected at one address, the other address is pending
\* with the same client_id and was heard from later, and the last call was
\* answered with None.
C19_Witness ==
    /\ ret = ResultNone
    /\ \E a, b \in Addrs :
          /\ InSlot(a)
          /\ ~InSlot(b) /\ pending_clients[b] # None
          /\ Unwrap(pending_clients[b]).client_id = ClientAt(a).client_id
          /\ Unwrap(pending_clients[b]).last_packet_received_time
                > ClientAt(a).last_packet_received_time


(***************************************************************************)
(* C20. process_slice accounting. After any sequence of process_message,   *)
(* process_slice and receive_message calls on a receive channel,           *)
(* memory_usage_bytes equals the reservations (num_slices * SLICE_SIZE) of *)
(* the reassemblies in flight plus the lengths of the queued messages, and *)
(* no subtraction has underflowed: no call panicked (overflow checks) and  *)
(* the counter never wrapped (no overflow checks).                         *)
(***************************************************************************)
C20_SliceAccounting ==
    /\ ~recv.panicked
    /\ recv.memory_usage_bytes >= 0
    /\ recv.memory_usage_bytes =
          SumReserved(recv.slices, SliceIds) + SumLen(recv.messages)

(***************************************************************************)
(* Helpers of the reassembly properties.                                   *)
(***************************************************************************)
Count(messages, m) == Cardinality({i \in 1..Len(messages) : messages[i] = m})
Elements(messages) == {messages[i] : i \in 1..Len(messages)}
\* a holds no message more often than b does.
SubBag(a, b) == \A m \in Elements(a) : Count(a, m) <= Count(b, m)
SameBag(a, b) == SubBag(a, b) /\ SubBag(b, a)

\* The receiver can hold the reassembly buffers of every accepted message
\* at once.
SufficientMemory == SumFootprint(accepted) <= recv.max_memory_usage_bytes

\* What the receiver has handed out or holds ready to hand out.
Reassembled == delivered \o recv.messages

\* No message comes out more often than it went in; once every packet has
\* been fed, in whatever order, every accepted message is out or ready,
\* octet for octet, and no reassembly is left in flight.
C21_Reassembly ==
    SufficientMemory =>
       /\ ~recv.panicked
       /\ SubBag(Reassembled, accepted)
       /\ AllFed => /\ SameBag(Reassembled, accepted)
                    /\ \A id \in SliceIds : recv.slices[id] = None

\* With everything handed out, receive_message returns None.
C21_ThenNone ==
    (AllThrough /\ chan_ret'.type = "receive_message") =>
        /\ chan_ret'.value = None
        /\ delivered' = delivered

\* A get_messages_to_send that empties a non-empty queue of large messages:
\* the j-th message gets message_id sliced_message_id + j - 1, no id below
\* the counter is used again, and the slices of one message carry the
\* indices 0..num_slices-1 and the same num_slices, the number of
\* SLICE_SIZE pieces that cover the message.
C21_SliceIds ==
    (send.unreliable_messages # << >> /\ send'.unreliable_messages = << >>) =>
       LET queue == send.unreliable_messages
           new == SubSeq(wire', Len(wire) + 1, Len(wire'))
           first == send.sliced_message_id
       IN /\ send'.sliced_message_id = first + Len(queue)
          /\ \A k \in 1..Len(new) :
                /\ new[k].kind = "UnreliableSlice"
                /\ new[k].slice.message_id \in first..(first + Len(queue) - 1)
          /\ \A j \in 1..Len(queue) :
                LET group == {k \in 1..Len(new) :
                                new[k].slice.message_id = first + j - 1}
                    n == Cardinality(group)
                IN /\ (n - 1) * SLICE_SIZE < Len(queue[j])
                   /\ Len(queue[j]) <= n * SLICE_SIZE
                   /\ {new[k].slice.slice_index : k \in group} = 0..(n - 1)
                   /\ \A k \in group : new[k].slice.num_slices = n

\* Every slice in flight carries an id below the channel's counter.
C21_IdsBelowCounter ==
    \A k \in 1..Len(wire) :
        wire[k].slice.message_id < send.sliced_message_id

(***************************************************************************)
(* C21. Slice reassembly is independent of arrival order. Messages larger  *)
(* than SLICE_SIZE go through one send channel and all the UnreliableSlice *)
(* packets it emits are fed, in any permutation and with the slices of     *)
(* different messages interleaved, to a receiver with sufficient memory:   *)
(* receive_message returns exactly the accepted messages, each once and    *)
(* octet for octet, then None; the slices of one message carry indices     *)
(* 0..num_slices-1 and one message_id that no other message uses.          *)
(***************************************************************************)
C21_ReassemblyAnyOrder ==
    /\ [](C21_Reassembly /\ C21_IdsBelowCounter)
    /\ [][C21_ThenNone /\ C21_SliceIds]_vars

\* Two different messages went out and both came back, the second one
\* accepted being completed and returned first: its last missing slice was
\* fed before the first message's.
C21_Witness ==
    /\ Len(accepted) = 2
    /\ accepted[1] # accepted[2]
    /\ AllThrough
    /\ delivered = <<accepted[2], accepted[1]>>
    /\ ReceivedNone

(***************************************************************************)
(* Helpers of the batching property.                                       *)
(***************************************************************************)
IsBatch(packet) == packet.kind = "SmallUnreliable"
SmallOnes(messages) == SelectSeq(messages, IsSmall)

\* The messages of the batches among the packets, batch after batch.
RECURSIVE BatchedMessages(_)
BatchedMessages(packets) ==
    IF packets = << >> THEN << >>
    ELSE (IF IsBatch(Head(packets)) THEN Head(packets).messages ELSE << >>)
         \o BatchedMessages(Tail(packets))

\* The step is a get_messages_to_send call.
DrainStep == chan_ret'.type = "get_messages_to_send"

\* Every batch returned holds at least one message and at most SLICE_SIZE
\* octets.
C22_BatchSize ==
    DrainStep =>
       \A k \in 1..Len(chan_ret'.packets) :
          LET packet == chan_ret'.packets[k]
          IN IsBatch(packet) =>
                /\ packet.messages # << >>
                /\ SumLen(packet.messages) <= SLICE_SIZE

\* The batches, read one after the other, are the small messages of the
\* queue (every accepted small message not yet drained), each once.
C22_EachOnce ==
    DrainStep =>
       BatchedMessages(chan_ret'.packets) = SmallOnes(send.unreliable_messages)

\* Greedy: a batch was closed only because the message that starts the
\* next batch would have taken it past SLICE_SIZE.
C22_Greedy ==
    DrainStep =>
       LET batches == SelectSeq(chan_ret'.packets, IsBatch)
       IN \A k \in 1..(Len(batches) - 1) :
             SumLen(batches[k].messages) + Len(Head(batches[k + 1].messages))
                > SLICE_SIZE

\* The call leaves the queue empty, and a call on an empty queue (a second
\* call with no send_message in between) returns no packet.
C22_SecondCallEmpty ==
    DrainStep =>
       /\ send'.unreliable_messages = << >>
       /\ send.unreliable_messages = << >> => chan_ret'.packets = << >>

(***************************************************************************)
(* C22. Batching in get_messages_to_send. Every SmallUnreliable packet     *)
(* returned is non-empty and its messages total at most SLICE_SIZE octets; *)
(* small messages are packed greedily (a message joins the current batch   *)
(* iff the total stays <= SLICE_SIZE, otherwise the batch is flushed and a *)
(* new one starts with this message); every accepted small message is in   *)
(* exactly one batch; a second call with no send_message in between        *)
(* returns an empty list.                                                  *)
(***************************************************************************)
C22_Batching ==
    [][C22_BatchSize /\ C22_EachOnce /\ C22_Greedy /\ C22_SecondCallEmpty]_vars

\* Three small messages were drained into two batches: the first holds two
\* messages and exactly SLICE_SIZE octets, the third message started the
\* second batch.
C22_Witness ==
    /\ chan_ret.type = "get_messages_to_send"
    /\ Len(chan_ret.packets) = 2
    /\ \A k \in 1..2 : IsBatch(chan_ret.packets[k])
    /\ Len(chan_ret.packets[1].messages) = 2
    /\ SumLen(chan_ret.packets[1].messages) = SLICE_SIZE
    /\ Len(chan_ret.packets[2].messages) = 1

(***************************************************************************)
(* C23. When a Response is accepted from a pending address, the client_id  *)
(* of the connection placed in the slot and reported in ClientConnected is *)
(* the client_id sealed in the challenge token the Response carries: a     *)
(* challenge token the server issued for another client_id, or to another  *)
(* address, cannot complete the handshake of this pending entry.           *)
(***************************************************************************)
C23_ResponseStep ==
    \A addr \in Addrs :
        (~InSlot(addr) /\ pending_clients[addr] # None)
        => \A buffer \in Buffers(issued) :
             ( /\ buffer.kind = "Response"
               /\ buffer.challenge.authentic
               /\ process_packet(addr, buffer, 10)
               /\ InSlot(addr)' )
             => /\ ClientAt(addr)'.client_id = buffer.challenge.client_id
                /\ events' = Append(events,
                                    ClientConnected(buffer.challenge.client_id))

C23_ChallengeBindsClient == [][C23_ResponseStep]_vars

=============================================================================
